---------------------------- MODULE Spec2Model ----------------------------
(***************************************************************************)
(* Display list of the VBIT teletext inserter (displaylist.c): a pool of   *)
(* fixed-size nodes in serial RAM threaded into a free list, a page array  *)
(* (directory) of node pointers indexed by (mag, page), and the scan of    *)
(* pages.idx / pages.all that links every page into the display list.      *)
(***************************************************************************)
EXTENDS Integers, Sequences, FiniteSets, TLC

(***************************************************************************)
(* Sizes.  MAXNODES is scaled down; the directory keeps its 8 x 256 shape. *)
(***************************************************************************)
MAXNODES == 3

NumMags == 8

NumPages == 256

PtrSize == 2

NULLPTR == 65535

FREENODE == 255

NULLNODE == 254

Word16 == 65536

PAGEARRAYSIZE == NumMags * NumPages * PtrSize

NodeIx == 0 .. (MAXNODES - 1)

\* Inputs of the pool-level operations.
MagInputs == {1, 8, 9}

PageInputs == {16}

SubInputs == {0, 1}

IxInputs == {0, 1}

MaxCalls == MAXNODES + 2

\* Calls in a run of MakeFreeList and LinkPage only.
MaxLinks == MAXNODES + 3

(***************************************************************************)
(* Pure parts of the code.                                                 *)
(***************************************************************************)
\* mag=(mag-1) & 0x07 without the mask.
MagSlot_NoMask(mag) == mag - 1

\* LinkPage: mag=(mag-1) & 0x07
MagSlot(mag) == (mag - 1) % NumMags

\* LinkPage: cellAddress=((mag<<8)+page)*sizeof(NODEPTR), a uint16_t
CellAddress(mag, page) == (((MagSlot(mag) * NumPages) + page) * PtrSize) % Word16

\* The cells of the page array the model stores: all eight mags of the input pages.
Cells == {CellAddress(m, p) : m \in 1 .. NumMags, p \in PageInputs}

MkNode(pageindex, subpage, next) ==
    [pageindex |-> pageindex, subpage |-> subpage, next |-> next]

\* What a read outside the node pool may deliver: a NULLNODE or not, linked to
\* a node of the pool or not.
WildNodes == {MkNode(0, s, n) : s \in {0, NULLNODE}, n \in {0, NULLPTR}}

\* GetNode: the record read for slot i.
GetNodeSet(r, i) == IF i \in NodeIx THEN {r[i]} ELSE WildNodes

\* SetNode for a slot of the pool.
SetNode(r, node, i) == [r EXCEPT ![i] = node]

\* SetNodePtr for a cell of the page array.
SetNodePtr(p, nodeptr, addr) ==
    IF addr \in DOMAIN p THEN [p EXCEPT ![addr] = nodeptr] ELSE p

\* GetNodePtr
GetNodePtr(p, addr) == p[addr]

\* What a SetNode outside the node pool may do to the serial RAM: miss every
\* stored cell, land on a node of the pool, or land on a cell of the page array.
WildWrites(r, p, node) ==
    {[ram |-> r, pa |-> p]}
    \cup {[ram |-> SetNode(r, node, k), pa |-> p] : k \in NodeIx}
    \cup {[ram |-> r, pa |-> SetNodePtr(p, node.pageindex, c)] : c \in DOMAIN p}

SetNodeSet(r, p, node, i) ==
    IF i \in NodeIx THEN {[ram |-> SetNode(r, node, i), pa |-> p]}
    ELSE WildWrites(r, p, node)

\* NewNode that returns the head and leaves sFreeList on it.
NewNodeSet_NoAdvance(fl, r) ==
    {[ix |-> fl, fl |-> fl, err |-> node.subpage = NULLNODE] : node \in GetNodeSet(r, fl)}

\* NewNode: returns ix=sFreeList; the free list advances unless the head is a NULLNODE.
NewNodeSet(fl, r) ==
    {[ix |-> fl,
      fl |-> IF node.subpage = NULLNODE THEN fl ELSE node.next,
      err |-> node.subpage = NULLNODE] : node \in GetNodeSet(r, fl)}

\* ReturnToFreeList that leaves the slot number in pageindex.
ReturnToFreeList_KeepIndex(fl, r, i) ==
    [fl |-> i, ram |-> SetNode(r, MkNode(i, FREENODE, fl), i)]

\* ReturnToFreeList(i) for a slot of the pool.
ReturnToFreeList(fl, r, i) ==
    [fl |-> i, ram |-> SetNode(r, MkNode(0, FREENODE, fl), i)]

\* MakeFreeList: for (i=MAXNODES-1;i>=0;i--) ReturnToFreeList(i);
RECURSIVE FreeLoop(_, _)
FreeLoop(i, st) ==
    IF i < 0 THEN st ELSE FreeLoop(i - 1, ReturnToFreeList(st.fl, st.ram, i))

\* MakeFreeList without the loop that clears the page array.
MakeFreeList_KeepPageArray(r, p) ==
    LET st == FreeLoop(MAXNODES - 1, [fl |-> 0, ram |-> SetNode(r, MkNode(0, NULLNODE, 0), 0)])
    IN  [fl |-> st.fl, ram |-> st.ram, pa |-> p]

\* MakeFreeList: sFreeList=0; the NULLNODE in slot 0; the loop; the page array cleared.
MakeFreeList(r, p) ==
    LET st == FreeLoop(MAXNODES - 1, [fl |-> 0, ram |-> SetNode(r, MkNode(0, NULLNODE, 0), 0)])
    IN  [fl |-> st.fl, ram |-> st.ram, pa |-> [c \in DOMAIN p |-> NULLPTR]]

\* LinkPage: a new node always, its pointer into the page array, then the node written.
LinkPageSet(fl, r, p, mag, page, subpage, ix) ==
    LET cellAddress == CellAddress(mag, page)
    IN  UNION {{[fl |-> nn.fl, ram |-> w.ram, pa |-> w.pa, ix |-> nn.ix, err |-> nn.err,
                 cell |-> cellAddress] :
                   w \in SetNodeSet(r, SetNodePtr(p, nn.ix, cellAddress),
                                    MkNode(ix, subpage, NULLPTR), nn.ix)} :
               nn \in NewNodeSet(fl, r)}

\* The node reached from fl after k steps along next (NULLPTR once outside the pool).
RECURSIVE Hop(_, _, _)
Hop(fl, r, k) ==
    IF k = 0 THEN fl
    ELSE IF fl \in NodeIx THEN Hop(r[fl].next, r, k - 1) ELSE NULLPTR

\* The nodes of the pool reachable from the head of the free list.
FreeReach(fl, r) == {Hop(fl, r, k) : k \in 0 .. MAXNODES} \cap NodeIx

\* The free list as NewNode would hand it out: the head and the MAXNODES nodes
\* after it along next.
FreeSeq(fl, r) == [k \in 1 .. (MAXNODES + 1) |-> Hop(fl, r, k - 1)]

(***************************************************************************)
(* State.                                                                  *)
(***************************************************************************)
VARIABLES
    sFreeList,      \* static NODEPTR sFreeList
    sDisplayList,   \* static NODEPTR sDisplayList
    ram,            \* serial RAM, node pool: slot -> DISPLAYNODE
    pageArray,      \* serial RAM, page array: cell address -> NODEPTR
    formatted,      \* MakeFreeList has run
    fmt,            \* the pool as the latest MakeFreeList left it
    allocated,      \* nodes handed out by NewNode and not returned since
    lastOp,         \* the last operation and what it returned
    lastLink,       \* per cell: the arguments of the latest LinkPage for it
    allocRun,       \* NewNode calls since MakeFreeList
    kinds,          \* the operations called since MakeFreeList
    calls,          \* operations so far
    pc, result,     \* InitDisplayList: position and return value
    listOpen, allOpen,   \* listFIL / pagefileFIL are open
    idxOK, allOK,   \* whether f_open of pages.idx / pages.all succeeds
    index,          \* pages.idx: records [seekptr, pagesize]
    content,        \* pages.all: lines
    listPos, allPos,     \* file positions (records read / lines read)
    ixRec, ix, p,   \* ScanPageList locals: index record, record number, PAGE
    nLinks,         \* LinkPage calls made by the scan
    runs,           \* calls of ScanPageList begun
    starved,        \* a LinkPage of the scan found every node already handed out
    aMag, aPage, aCell, aDone   \* address computation: inputs, result, computed

poolVars == <<sFreeList, sDisplayList, ram, pageArray>>

ghostVars == <<formatted, fmt, allocated, lastOp, lastLink, allocRun, kinds, calls>>

scanVars == <<pc, result, listOpen, allOpen, idxOK, allOK, index, content,
              listPos, allPos, ixRec, ix, p, nLinks, runs, starved>>

addrVars == <<aMag, aPage, aCell, aDone>>

vars == <<poolVars, ghostVars, scanVars, addrVars>>

\* Serial RAM before MakeFreeList: not initialised by the program.
PowerOnNodes == {MkNode(0, 0, 0), MkNode(NULLPTR, FREENODE, NULLPTR)}

PowerOnPtrs == {0, NULLPTR}

NoOp == [op |-> "none", ret |-> NULLPTR, err |-> FALSE, before |-> {}, bound |-> {},
         list |-> <<>>]

NoLink == [n |-> 0, ix |-> 0, subpage |-> 0, differ |-> FALSE]

NoRec == [seekptr |-> 0, pagesize |-> 0]

NoStarve == [hit |-> FALSE, ix |-> 0]

NoFmt == [fl |-> NULLPTR, ram |-> <<>>, pa |-> <<>>]

NoPage == [mag |-> 0, page |-> 0, subpage |-> 0]

PoolInit ==
    /\ sFreeList = 0
    /\ sDisplayList = 0
    /\ ram \in {[i \in NodeIx |-> n] : n \in PowerOnNodes}
    /\ pageArray \in {[c \in Cells |-> v] : v \in PowerOnPtrs}

GhostInit ==
    /\ formatted = FALSE
    /\ fmt = NoFmt
    /\ allocated = {}
    /\ lastOp = NoOp
    /\ lastLink = [c \in Cells |-> NoLink]
    /\ allocRun = 0
    /\ kinds = {}
    /\ calls = 0

ScanIdle ==
    /\ pc = "idle"
    /\ result = 0
    /\ listOpen = FALSE
    /\ allOpen = FALSE
    /\ idxOK = TRUE
    /\ allOK = TRUE
    /\ index = <<>>
    /\ content = <<>>
    /\ listPos = 0
    /\ allPos = 0
    /\ ixRec = NoRec
    /\ ix = 0
    /\ p = NoPage
    /\ nLinks = 0
    /\ runs = 0
    /\ starved = NoStarve

AddrIdle ==
    /\ aMag = 0
    /\ aPage = 0
    /\ aCell = 0
    /\ aDone = FALSE

\* The node pointers stored in the page array.
Bound(pa) == {pa[c] : c \in DOMAIN pa}

(***************************************************************************)
(* The operations of the pool, called in any order once MakeFreeList ran.  *)
(***************************************************************************)
FormatOp(max) ==
    /\ calls < max
    /\ LET m == MakeFreeList(ram, pageArray)
       IN  /\ sFreeList' = m.fl
           /\ ram' = m.ram
           /\ pageArray' = m.pa
           /\ fmt' = m
    /\ formatted' = TRUE
    /\ allocated' = {}
    /\ lastOp' = [NoOp EXCEPT !.op = "MakeFreeList"]
    /\ lastLink' = [c \in Cells |-> NoLink]
    /\ allocRun' = 0
    /\ kinds' = {}
    /\ calls' = calls + 1
    /\ UNCHANGED <<sDisplayList, scanVars, addrVars>>

Allocate ==
    /\ formatted
    /\ calls < MaxCalls
    /\ \E nn \in NewNodeSet(sFreeList, ram) :
          /\ sFreeList' = nn.fl
          /\ lastOp' = [op |-> "NewNode", ret |-> nn.ix, err |-> nn.err,
                        before |-> allocated, bound |-> Bound(pageArray),
                        list |-> FreeSeq(sFreeList, ram)]
          /\ allocated' = IF nn.err THEN allocated ELSE allocated \cup {nn.ix}
    /\ allocRun' = allocRun + 1
    /\ kinds' = kinds \cup {"NewNode"}
    /\ calls' = calls + 1
    /\ UNCHANGED <<sDisplayList, ram, pageArray, formatted, fmt, lastLink, scanVars, addrVars>>

\* ReturnToFreeList(i), for a node the caller holds and has unlinked.
Release ==
    /\ formatted
    /\ calls < MaxCalls
    /\ \E i \in (allocated \cap NodeIx) \ Bound(pageArray) :
          /\ LET f == ReturnToFreeList(sFreeList, ram, i)
             IN  /\ sFreeList' = f.fl
                 /\ ram' = f.ram
          /\ allocated' = allocated \ {i}
          /\ lastOp' = [NoOp EXCEPT !.op = "ReturnToFreeList", !.ret = i]
    /\ kinds' = kinds \cup {"ReturnToFreeList"}
    /\ calls' = calls + 1
    /\ UNCHANGED <<sDisplayList, pageArray, formatted, fmt, lastLink, allocRun, scanVars, addrVars>>

Format == FormatOp(MaxCalls)

LinkPageOp(max) ==
    /\ formatted
    /\ calls < max
    /\ \E mag \in MagInputs, page \in PageInputs, subpage \in SubInputs, i \in IxInputs :
          \E l \in LinkPageSet(sFreeList, ram, pageArray, mag, page, subpage, i) :
             /\ sFreeList' = l.fl
             /\ ram' = l.ram
             /\ pageArray' = l.pa
             /\ lastOp' = [op |-> "LinkPage", ret |-> l.ix, err |-> l.err,
                           before |-> allocated, bound |-> Bound(pageArray),
                        list |-> <<>>]
             /\ allocated' = IF l.err THEN allocated ELSE allocated \cup {l.ix}
             /\ lastLink' = [lastLink EXCEPT ![l.cell] =
                               [n |-> IF @.n < 2 THEN @.n + 1 ELSE 2,
                                ix |-> i, subpage |-> subpage,
                                differ |-> @.n > 0 /\ (@.differ \/ @.ix # i)]]
    /\ kinds' = kinds \cup {"LinkPage"}
    /\ calls' = calls + 1
    /\ UNCHANGED <<sDisplayList, formatted, fmt, allocRun, scanVars, addrVars>>

LinkPage == LinkPageOp(MaxCalls)

Init == PoolInit /\ GhostInit /\ ScanIdle /\ AddrIdle

Next == Format \/ Allocate \/ Release \/ LinkPage

Spec == Init /\ [][Next]_vars

\* Runs of MakeFreeList and LinkPage only, two calls beyond the size of the pool.
FormatFirst == FormatOp(MaxLinks)

LinkMore == LinkPageOp(MaxLinks)

LinksNext == FormatFirst \/ LinkMore

SpecLinks == Init /\ [][LinksNext]_vars

(***************************************************************************)
(* Walking the free list.                                                  *)
(***************************************************************************)
(***************************************************************************)
(* Claims about the pool.                                                  *)
(***************************************************************************)
\* C1: NewNode (called directly or by LinkPage) never returns a node that is
\* currently handed out or currently stored in a cell of the page array.
C1_AllocateReturnsFreshNode ==
    (lastOp.op \in {"NewNode", "LinkPage"} /\ ~lastOp.err /\ lastOp.ret \in NodeIx)
        => (lastOp.ret \notin lastOp.before /\ lastOp.ret \notin lastOp.bound)

\* C2: right after MakeFreeList, MAXNODES steps from sFreeList visit every node
\* of the pool once and the walk ends at a node whose subpage is NULLNODE.
C2_FreeListEndsAtNullNode ==
    lastOp.op = "MakeFreeList" =>
        /\ {Hop(sFreeList, ram, k) : k \in 0 .. (MAXNODES - 1)} = NodeIx
        /\ \E k \in {MAXNODES - 1, MAXNODES} :
              /\ Hop(sFreeList, ram, k) \in NodeIx
              /\ ram[Hop(sFreeList, ram, k)].subpage = NULLNODE

\* C3: MAXNODES + 1 calls of NewNode after MakeFreeList, nothing returned in
\* between: the last call takes the out-of-nodes branch.
C3_ExhaustionReported ==
    (kinds = {"NewNode"} /\ allocRun = MAXNODES + 1) => lastOp.err

\* C4: after LinkPage calls only, a cell that was linked at least twice with
\* different page indexes points to a node holding the page index and the
\* subpage of the latest LinkPage for that cell.
C4_LastWriteWins ==
    formatted =>
        \A c \in Cells :
            lastLink[c].differ =>
                /\ GetNodePtr(pageArray, c) \in NodeIx
                /\ ram[GetNodePtr(pageArray, c)].pageindex = lastLink[c].ix
                /\ ram[GetNodePtr(pageArray, c)].subpage = lastLink[c].subpage

\* C7: after LinkPage calls and returns of unlinked nodes, no node the page
\* array points to is marked FREENODE, and no node on the free list is pointed
\* to by the page array.
C7_CatalogAndFreeListApart ==
    (formatted /\ kinds \subseteq {"LinkPage", "ReturnToFreeList"}) =>
        /\ \A c \in Cells :
              GetNodePtr(pageArray, c) \in NodeIx
                  => ram[GetNodePtr(pageArray, c)].subpage # FREENODE
        /\ FreeReach(sFreeList, ram) \cap Bound(pageArray) = {}

(***************************************************************************)
(* The cell address of LinkPage as a function of its uint8_t arguments.    *)
(***************************************************************************)
Byte == 0 .. 255

AddrInit ==
    /\ PoolInit
    /\ ram = [i \in NodeIx |-> MkNode(0, 0, 0)]
    /\ pageArray = [c \in Cells |-> NULLPTR]
    /\ GhostInit
    /\ ScanIdle
    /\ aMag \in Byte
    /\ aPage \in Byte
    /\ aCell = 0
    /\ aDone = FALSE

ComputeCell ==
    /\ ~aDone
    /\ aCell' = CellAddress(aMag, aPage)
    /\ aDone' = TRUE
    /\ UNCHANGED <<aMag, aPage, poolVars, ghostVars, scanVars>>

AddrNext == ComputeCell

SpecAddr == AddrInit /\ [][AddrNext]_vars

\* C6: for every mag and page byte the cell computed by LinkPage lies inside
\* the 8 x 256 page array, below the node pool; mags 1 and 9 address row 0,
\* mags 8 and 16 row 7, and mags that differ by a multiple of 8 address the
\* same cell.
C6_DirectoryBounds ==
    aDone =>
        /\ aCell >= 0
        /\ aCell + PtrSize <= PAGEARRAYSIZE
        /\ aCell % PtrSize = 0
        /\ (aCell \div PtrSize) % NumPages = aPage
        /\ aMag \in {1, 9} => (aCell \div PtrSize) \div NumPages = 0
        /\ aMag \in {8, 16} => (aCell \div PtrSize) \div NumPages = 7
        /\ \A m \in Byte : (m - aMag) % 8 = 0 => CellAddress(m, aPage) = aCell

C6_Witness == aDone /\ aMag = 16 /\ aPage = 255 /\ aCell = 4094

(***************************************************************************)
(* InitDisplayList and ScanPageList, step by step.                         *)
(***************************************************************************)
MaxRecords == MAXNODES + 1

\* ParseLine reports mag 9 until a header line sets mag, page and subpage.
NoMag == 9

Hdr(m) == [kind |-> "hdr", mag |-> m, page |-> 16, subpage |-> 0]

Txt == [kind |-> "txt", mag |-> 0, page |-> 0, subpage |-> 0]

\* The pages a pages.all is made of: a header line, a text line and then the
\* header, or a text line only.
PageKinds == {<<Hdr(m)>> : m \in 1 .. (MAXNODES + 1)} \cup {<<Txt, Hdr(1)>>, <<Txt>>}

RECURSIVE BuildContent(_)
BuildContent(pages) ==
    IF pages = <<>> THEN <<>> ELSE Head(pages) \o BuildContent(Tail(pages))

\* pages.idx: one record per page, its offset in pages.all and its size.
RECURSIVE BuildIndex(_, _)
BuildIndex(pages, at) ==
    IF pages = <<>> THEN <<>>
    ELSE <<[seekptr |-> at, pagesize |-> Len(Head(pages))]>>
             \o BuildIndex(Tail(pages), at + Len(Head(pages)))

\* ParseLine(p, str): a header line sets the page's mag, page and subpage; any
\* other line, and the NULL that f_gets returns at the end of the file, leave
\* them alone.
ParseLine(pg, str) ==
    IF str # <<>> /\ str[1].kind = "hdr"
    THEN [mag |-> str[1].mag, page |-> str[1].page, subpage |-> str[1].subpage]
    ELSE pg

\* f_gets(line, MAXLINE, &pagefileFIL): the next line, <<>> for NULL at the end.
FGets(file, pos) == IF pos < Len(file) THEN <<file[pos + 1]>> ELSE <<>>

IngestInit ==
    /\ PoolInit
    /\ pageArray[CellAddress(1, 16)] = (IF ram[0].subpage = 0 THEN 0 ELSE NULLPTR)
    /\ GhostInit
    /\ AddrIdle
    /\ pc = "start"
    /\ result = 0
    /\ listOpen = FALSE
    /\ allOpen = FALSE
    /\ idxOK \in BOOLEAN
    /\ allOK \in BOOLEAN
    /\ \E n \in 0 .. MaxRecords :
          \E pages \in [1 .. n -> PageKinds] :
             /\ index = BuildIndex(pages, 0)
             /\ content = BuildContent(pages)
    /\ listPos = 0
    /\ allPos = 0
    /\ ixRec = NoRec
    /\ ix = 0
    /\ p = NoPage
    /\ nLinks = 0
    /\ runs = 0
    /\ starved = NoStarve

\* InitDisplayList that calls ScanPageList without MakeFreeList.
InitDisplayList_NoFormat ==
    /\ pc = "start"
    /\ sDisplayList' = NULLPTR
    /\ sFreeList' = NULLPTR
    /\ calls' = calls + 1
    /\ pc' = "open_idx"
    /\ UNCHANGED <<ram, pageArray, formatted, fmt, allocated, lastOp, lastLink, allocRun,
                   kinds, result, listOpen, allOpen, idxOK, allOK, index, content, listPos,
                   allPos, ixRec, ix, p, nLinks, runs, starved, addrVars>>

\* InitDisplayList up to the call of ScanPageList.
InitDisplayList ==
    /\ pc = "start"
    /\ sDisplayList' = NULLPTR
    /\ LET m == MakeFreeList(ram, pageArray)
       IN  /\ sFreeList' = m.fl
           /\ ram' = m.ram
           /\ pageArray' = m.pa
           /\ fmt' = m
    /\ formatted' = TRUE
    /\ allocated' = {}
    /\ lastOp' = [NoOp EXCEPT !.op = "MakeFreeList"]
    /\ lastLink' = [c \in Cells |-> NoLink]
    /\ allocRun' = 0
    /\ kinds' = {}
    /\ calls' = calls + 1
    /\ pc' = "open_idx"
    /\ UNCHANGED <<result, listOpen, allOpen, idxOK, allOK, index, content, listPos,
                   allPos, ixRec, ix, p, nLinks, runs, starved, addrVars>>

\* res=f_open(&listFIL,"pages.idx",FA_READ); if (res) return 1;
OpenIndex ==
    /\ pc = "open_idx"
    /\ IF idxOK
       THEN /\ listOpen' = TRUE
            /\ listPos' = 0
            /\ pc' = "open_all"
            /\ UNCHANGED result
       ELSE /\ result' = 1
            /\ pc' = "done"
            /\ UNCHANGED <<listOpen, listPos>>
    /\ runs' = runs + 1
    /\ UNCHANGED <<poolVars, ghostVars, allOpen, idxOK, allOK, index, content, allPos,
                   ixRec, ix, p, nLinks, starved, addrVars>>

\* OpenAll that returns without closing pages.idx.
OpenAll_LeaveIndexOpen ==
    /\ pc = "open_all"
    /\ IF allOK
       THEN /\ allOpen' = TRUE
            /\ allPos' = 0
            /\ ix' = 0
            /\ pc' = "loop"
            /\ UNCHANGED <<result, listOpen>>
       ELSE /\ result' = 1
            /\ pc' = "done"
            /\ UNCHANGED <<allOpen, allPos, ix, listOpen>>
    /\ UNCHANGED <<poolVars, ghostVars, idxOK, allOK, index, content, listPos,
                   ixRec, p, nLinks, runs, starved, addrVars>>

\* res=f_open(&pagefileFIL,"pages.all",FA_READ); if (res) { f_close(&listFIL); return 1; }
OpenAll ==
    /\ pc = "open_all"
    /\ IF allOK
       THEN /\ allOpen' = TRUE
            /\ allPos' = 0
            /\ ix' = 0
            /\ pc' = "loop"
            /\ UNCHANGED <<result, listOpen>>
       ELSE /\ listOpen' = FALSE
            /\ result' = 1
            /\ pc' = "done"
            /\ UNCHANGED <<allOpen, allPos, ix>>
    /\ UNCHANGED <<poolVars, ghostVars, idxOK, allOK, index, content, listPos,
                   ixRec, p, nLinks, runs, starved, addrVars>>

\* for (ix=0;!f_eof(&listFIL);ix++): at the end both files are closed and 0 is
\* returned; otherwise f_read of the next record, f_lseek to its page, p->mag=9.
LoopHead ==
    /\ pc = "loop"
    /\ IF listPos >= Len(index)
       THEN /\ listOpen' = FALSE
            /\ allOpen' = FALSE
            /\ result' = 0
            /\ pc' = "done"
            /\ UNCHANGED <<listPos, allPos, ixRec, p>>
       ELSE /\ ixRec' = index[listPos + 1]
            /\ listPos' = listPos + 1
            /\ allPos' = IF ixRec'.seekptr <= Len(content) THEN ixRec'.seekptr ELSE Len(content)
            /\ p' = [p EXCEPT !.mag = NoMag]
            /\ pc' = "scan"
            /\ UNCHANGED <<listOpen, allOpen, result>>
    /\ UNCHANGED <<poolVars, ghostVars, idxOK, allOK, index, content, ix, nLinks,
                   runs, starved, addrVars>>

\* while (p->mag==9) { str=f_gets(...); ParseLine(p,str); }   one turn of the loop
ScanLine ==
    /\ pc = "scan"
    /\ LET str == FGets(content, allPos)
       IN  /\ allPos' = allPos + Len(str)
           /\ p' = ParseLine(p, str)
    /\ pc' = IF p'.mag = NoMag THEN "scan" ELSE "link"
    /\ UNCHANGED <<poolVars, ghostVars, result, listOpen, allOpen, idxOK, allOK, index,
                   content, listPos, ixRec, ix, nLinks, runs, starved, addrVars>>

\* LinkPage(p->mag,p->page,p->subpage,ix); and the ix++ of the for loop
Link ==
    /\ pc = "link"
    /\ \E l \in LinkPageSet(sFreeList, ram, pageArray, p.mag, p.page, p.subpage, ix) :
          /\ sFreeList' = l.fl
          /\ ram' = l.ram
          /\ pageArray' = l.pa
          /\ lastOp' = [op |-> "LinkPage", ret |-> l.ix, err |-> l.err,
                        before |-> allocated, bound |-> Bound(pageArray),
                        list |-> <<>>]
          /\ allocated' = IF l.err THEN allocated ELSE allocated \cup {l.ix}
          /\ lastLink' = [lastLink EXCEPT ![l.cell] =
                            [n |-> IF @.n < 2 THEN @.n + 1 ELSE 2,
                             ix |-> ix, subpage |-> p.subpage,
                             differ |-> @.n > 0 /\ (@.differ \/ @.ix # ix)]]
    /\ starved' = IF NodeIx \subseteq allocated THEN [hit |-> TRUE, ix |-> ix] ELSE starved
    /\ kinds' = kinds \cup {"LinkPage"}
    /\ calls' = calls + 1
    /\ nLinks' = nLinks + 1
    /\ ix' = (ix + 1) % Word16
    /\ pc' = "loop"
    /\ UNCHANGED <<sDisplayList, formatted, fmt, allocRun, result, listOpen, allOpen,
                   idxOK, allOK, index, content, listPos, allPos, ixRec, p, runs, addrVars>>

IngestNext == InitDisplayList \/ OpenIndex \/ OpenAll \/ LoopHead \/ ScanLine \/ Link

SpecIngest == IngestInit /\ [][IngestNext]_vars

\* ScanPageList called again, by itself, with the pages.idx and pages.all that
\* are then on the card.
MaxRuns == 2

RescanRecords == 1

ScanAgain ==
    /\ pc = "done"
    /\ runs < MaxRuns
    /\ \E n \in 0 .. RescanRecords :
          \E pages \in [1 .. n -> PageKinds] :
             /\ index' = BuildIndex(pages, 0)
             /\ content' = BuildContent(pages)
    /\ nLinks' = 0
    /\ pc' = "open_idx"
    /\ UNCHANGED <<poolVars, ghostVars, result, listOpen, allOpen, idxOK, allOK, listPos,
                   allPos, ixRec, ix, p, runs, starved, addrVars>>

RescanNext == IngestNext \/ ScanAgain

SpecRescan == IngestInit /\ [][RescanNext]_vars

(***************************************************************************)
(* Claims about the scan.                                                  *)
(***************************************************************************)
\* The first header line of pages.all in [pos, limit), <<>> if there is none.
RECURSIVE FirstHdr(_, _)
FirstHdr(pos, limit) ==
    IF pos >= limit \/ pos >= Len(content) THEN <<>>
    ELSE IF content[pos + 1].kind = "hdr" THEN <<content[pos + 1]>>
    ELSE FirstHdr(pos + 1, limit)

RecHdr(rec) == FirstHdr(rec.seekptr, rec.seekptr + rec.pagesize)

\* Every record of pages.idx has a header inside its page.
WellFormed == \A i \in 1 .. Len(index) : RecHdr(index[i]) # <<>>

RecKey(rec) == <<RecHdr(rec)[1].mag, RecHdr(rec)[1].page>>

DistinctKeys ==
    \A i, j \in 1 .. Len(index) : i # j => RecKey(index[i]) # RecKey(index[j])

\* C5: after a scan of well-formed records with pairwise distinct (mag, page),
\* the cell of every record points to a node whose pageindex is the record's
\* position in pages.idx, whatever the number of records.
C5_RoundTrip ==
    (pc = "done" /\ result = 0 /\ WellFormed /\ DistinctKeys) =>
        \A i \in 1 .. Len(index) :
            LET c == CellAddress(RecKey(index[i])[1], RecKey(index[i])[2])
            IN  /\ GetNodePtr(pageArray, c) \in NodeIx
                /\ ram[GetNodePtr(pageArray, c)].pageindex = i - 1

\* C8: when a LinkPage of the scan needed a node with every node of the pool
\* already handed out, InitDisplayList ends with a non-zero result, both files
\* closed, and no cell pointing to a node written for that page.
C8_ExhaustionAbortsScan ==
    (pc = "done" /\ starved.hit) =>
        /\ result # 0
        /\ ~listOpen
        /\ ~allOpen
        /\ \A c \in Cells :
              GetNodePtr(pageArray, c) \in NodeIx
                  => ram[GetNodePtr(pageArray, c)].pageindex # starved.ix

\* C9: when pages.idx or pages.all cannot be opened, the scan returns 1 without
\* a LinkPage, no file is left open, and the pool and the page array are as
\* MakeFreeList left them.
C9_OpenFailureLeavesFormat ==
    (pc = "done" /\ (~idxOK \/ ~allOK)) =>
        /\ result = 1
        /\ nLinks = 0
        /\ ~listOpen
        /\ ~allOpen
        /\ sFreeList = fmt.fl
        /\ ram = fmt.ram
        /\ pageArray = fmt.pa
        /\ \A c \in Cells : pageArray[c] = NULLPTR

C9_Witness ==
    /\ pc = "done"
    /\ idxOK
    /\ ~allOK
    /\ result = 1
    /\ Len(index) = MaxRecords
    /\ formatted

\* C10: the header scan of a record never goes on once the record's declared
\* size is used up: while the scan waits for a header, the next line to read
\* lies inside the record.
C10_ScanStopsAtRecordEnd ==
    pc = "scan" => allPos < ixRec.seekptr + ixRec.pagesize

\* C11: in a run of InitDisplayList no step of the scan allocates a node, calls
\* LinkPage or writes the page array or the node pool before MakeFreeList has
\* completed.
C11_FormatBeforeIngestion ==
    [][(pc # "start" /\ (nLinks' # nLinks \/ allocated' # allocated
                          \/ pageArray' # pageArray \/ ram' # ram))
          => (formatted /\ fmt # NoFmt /\ nLinks' = nLinks + 1)]_vars

C11_Witness == pc = "done" /\ result = 0 /\ nLinks = MaxRecords /\ formatted

\* The cells that the records of pages.idx address.
IndexCells ==
    {CellAddress(RecKey(index[i])[1], RecKey(index[i])[2]) : i \in 1 .. Len(index)}

\* C12: after a successful ScanPageList over well-formed files, whatever the
\* pool and the page array held before it, a cell is non-null only if its key
\* is in the pages.idx of this run, and the nodes in the page array are no
\* more than the LinkPage calls of this run.
C12_ScanRebuildsFromScratch ==
    (pc = "done" /\ result = 0 /\ runs > 0 /\ WellFormed) =>
        /\ \A c \in Cells : GetNodePtr(pageArray, c) # NULLPTR => c \in IndexCells
        /\ Cardinality(Bound(pageArray) \cap NodeIx) <= nLinks

(***************************************************************************)
(* LinkPage, one serial RAM access at a time.  pc is the position inside   *)
(* LinkPage, p and ix hold its arguments, lastOp.ret is newnodeptr.        *)
(***************************************************************************)
FormatIdle == pc = "idle" /\ FormatOp(MaxCalls)

\* newnodeptr=NewNode();
LinkNewNode ==
    /\ pc = "idle"
    /\ formatted
    /\ calls < MaxCalls
    /\ \E mag \in MagInputs, page \in PageInputs, subpage \in SubInputs, i \in IxInputs :
          /\ p' = [mag |-> mag, page |-> page, subpage |-> subpage]
          /\ ix' = i
    /\ \E nn \in NewNodeSet(sFreeList, ram) :
          /\ sFreeList' = nn.fl
          /\ lastOp' = [op |-> "LinkPage", ret |-> nn.ix, err |-> nn.err,
                        before |-> allocated, bound |-> Bound(pageArray),
                        list |-> <<>>]
          /\ allocated' = IF nn.err THEN allocated ELSE allocated \cup {nn.ix}
    /\ kinds' = kinds \cup {"LinkPage"}
    /\ calls' = calls + 1
    /\ pc' = "setptr"
    /\ UNCHANGED <<sDisplayList, ram, pageArray, formatted, fmt, lastLink, allocRun, result,
                   listOpen, allOpen, idxOK, allOK, index, content, listPos, allPos, ixRec,
                   nLinks, runs, starved, addrVars>>

\* SetNodePtr(newnodeptr,cellAddress);
LinkSetNodePtr ==
    /\ pc = "setptr"
    /\ pageArray' = SetNodePtr(pageArray, lastOp.ret, CellAddress(p.mag, p.page))
    /\ pc' = "setnode"
    /\ UNCHANGED <<sFreeList, sDisplayList, ram, ghostVars, result, listOpen, allOpen, idxOK,
                   allOK, index, content, listPos, allPos, ixRec, ix, p, nLinks, runs,
                   starved, addrVars>>

\* node.pageindex=ix; node.subpage=subpage; node.next=NULLPTR; SetNode(&node,newnodeptr);
LinkSetNode ==
    /\ pc = "setnode"
    /\ \E w \in SetNodeSet(ram, pageArray, MkNode(ix, p.subpage, NULLPTR), lastOp.ret) :
          /\ ram' = w.ram
          /\ pageArray' = w.pa
    /\ pc' = "idle"
    /\ UNCHANGED <<sFreeList, sDisplayList, ghostVars, result, listOpen, allOpen, idxOK,
                   allOK, index, content, listPos, allPos, ixRec, ix, p, nLinks, runs,
                   starved, addrVars>>

WritesNext == FormatIdle \/ LinkNewNode \/ LinkSetNodePtr \/ LinkSetNode

SpecWrites == Init /\ [][WritesNext]_vars

\* C13: once MakeFreeList has run, in no state between two serial RAM writes
\* does a cell of the page array point to a node whose record still carries
\* FREENODE: LinkPage writes the node before it writes the pointer to it.
C13_NodeWrittenBeforePointer ==
    formatted =>
        \A c \in Cells :
            GetNodePtr(pageArray, c) \in NodeIx
                => ram[GetNodePtr(pageArray, c)].subpage # FREENODE

\* C14: after MakeFreeList and any number of LinkPage calls no two cells hold
\* the same node, the node of every non-null cell is in the pool and has
\* next = NULLPTR, and no node of the page array is on the free list.
C14_SingleOwnership ==
    formatted =>
        /\ \A c1, c2 \in Cells :
              (c1 # c2 /\ GetNodePtr(pageArray, c1) = GetNodePtr(pageArray, c2))
                  => GetNodePtr(pageArray, c1) = NULLPTR
        /\ \A c \in Cells :
              GetNodePtr(pageArray, c) # NULLPTR
                  => /\ GetNodePtr(pageArray, c) \in NodeIx
                     /\ ram[GetNodePtr(pageArray, c)].next = NULLPTR
        /\ FreeReach(sFreeList, ram) \cap (Bound(pageArray) \cap NodeIx) = {}

\* C15: a node that a LinkPage handed out and that is in no cell any more,
\* displaced by a later LinkPage for its key, is never the node that a later
\* LinkPage takes from the free list.
C15_DisplacedNodeNotReturned ==
    (formatted /\ lastOp.op = "LinkPage" /\ ~lastOp.err) =>
        lastOp.ret \notin (lastOp.before \ lastOp.bound)

\* C16: ReturnToFreeList(i) writes {pageindex 0, subpage FREENODE, next = the
\* old sFreeList} to node i and sets sFreeList to i; every other node and every
\* cell of the page array stay as they were.
C16_ReleaseFrame ==
    [][(lastOp'.op = "ReturnToFreeList" /\ calls' = calls + 1) =>
          /\ sFreeList' = lastOp'.ret
          /\ ram'[lastOp'.ret] = MkNode(0, FREENODE, sFreeList)
          /\ \A k \in NodeIx \ {lastOp'.ret} : ram'[k] = ram[k]
          /\ pageArray' = pageArray]_vars

C16_Witness ==
    /\ lastOp.op = "ReturnToFreeList"
    /\ lastOp.ret # 0
    /\ sFreeList = lastOp.ret
    /\ ram[sFreeList].subpage = FREENODE
    /\ \E c \in Cells : GetNodePtr(pageArray, c) \in NodeIx

\* C17: from a pool that MakeFreeList has just built, NewNode calls hand out
\* fewer than MAXNODES different nodes: one slot is kept back as the end of
\* the free list.
C17_OneSlotKeptBack ==
    (formatted /\ kinds \subseteq {"NewNode"}) =>
        Cardinality(allocated \cap NodeIx) < MAXNODES

\* C18: whatever the serial RAM held before, MakeFreeList leaves sFreeList, the
\* node pool and the page array exactly as it leaves them on a store that was
\* never written, every cell NULLPTR; a second MakeFreeList changes nothing.
C18_FormatStateIndependent ==
    lastOp.op = "MakeFreeList" =>
        /\ \A n \in PowerOnNodes, v \in PowerOnPtrs :
              LET f == MakeFreeList([i \in NodeIx |-> n], [c \in Cells |-> v])
              IN  /\ sFreeList = f.fl
                  /\ ram = f.ram
                  /\ pageArray = f.pa
        /\ \A c \in Cells : GetNodePtr(pageArray, c) = NULLPTR
        /\ MakeFreeList(ram, pageArray) = [fl |-> sFreeList, ram |-> ram, pa |-> pageArray]

C18_Witness == lastOp.op = "MakeFreeList" /\ calls = MaxCalls /\ formatted

\* C19: NewNode writes nothing to the serial RAM; a ReturnToFreeList(r) right
\* after a NewNode that returned r puts sFreeList back on r and the free list
\* back to the sequence of nodes it was before the NewNode; a NewNode right
\* after a ReturnToFreeList(r) returns r.
C19_AllocateReleaseRoundTrip ==
    [][/\ (lastOp'.op = "NewNode" /\ calls' = calls + 1)
            => (ram' = ram /\ pageArray' = pageArray)
       /\ (/\ lastOp.op = "NewNode" /\ ~lastOp.err
           /\ lastOp'.op = "ReturnToFreeList" /\ lastOp'.ret = lastOp.ret
           /\ calls' = calls + 1)
            => (sFreeList' = lastOp.ret /\ FreeSeq(sFreeList', ram') = lastOp.list)
       /\ (/\ lastOp.op = "ReturnToFreeList"
           /\ lastOp'.op = "NewNode" /\ calls' = calls + 1)
            => (lastOp'.ret = lastOp.ret /\ ~lastOp'.err)]_vars

C19_Witness ==
    /\ lastOp.op = "ReturnToFreeList"
    /\ kinds = {"NewNode", "ReturnToFreeList"}
    /\ calls = 3
    /\ sFreeList = lastOp.ret
    /\ FreeSeq(sFreeList, ram) = FreeSeq(fmt.fl, fmt.ram)

=============================================================================
